---- MODULE Spec2Model ----
(***************************************************************************)
(* Model of native-lib/sample.c: the exported functions avg, ptrSize and   *)
(* Java_deltix_NativeUtilsSample_00024Imports_avg, the Windows entry point *)
(* DllMain, and the compile-time selection of NATIVE_API.                  *)
(*                                                                         *)
(* int32_t values are TLC integers (which are themselves 32 bits wide).    *)
(* The sum a + b needs 33 bits, so sums and double mantissas are kept as   *)
(* two-limb integers [hi, lo] with value hi * 2^16 + lo, 0 <= lo < 2^16.   *)
(* A double is [m, e] with value m * 2^e, m odd or zero.                   *)
(***************************************************************************)
EXTENDS Integers, FiniteSets, Sequences, TLC

VARIABLES target, overflow, exports, dll, pc, frame, mem

vars == <<target, overflow, exports, dll, pc, frame, mem>>

(***************************** bounds ************************************)
NumThreads == 2
MinSmall == 4
MaxSmall == 4
Edge == 2
MaxHandle == 1
MaxReason == 4

MaxInt32 == 2147483647
MinInt32 == -MaxInt32 - 1

Threads == 1..NumThreads

(* the int32 arguments tried by the single caller *)
Int32Inputs ==
    ((-MinSmall)..MaxSmall)
      \cup {(MaxInt32 - k) : k \in 0..Edge}
      \cup {(MinInt32 + k) : k \in 0..Edge}

(* opaque handles (pointers to void): the values are never dereferenced *)
Handles == 0..MaxHandle

(* the DWORD reason of a loader notification: 0 process detach, 1 process *)
(* attach, 2 thread attach, 3 thread detach, and values with no meaning   *)
(* (up to 2^31 - 1, the largest integer TLC holds)                        *)
Reasons == (0..MaxReason) \cup {MaxInt32}

(* the calls tried by concurrent callers *)
ConcPairs == {<<1, 2>>, <<2, 1>>, <<MaxInt32, 1>>, <<1, MaxInt32>>}
ConcHandles == {<<0, 0>>, <<1, 1>>}

(************************ two-limb integers ******************************)
Base == 2^16
HalfBase == 2^15

BigOf(n) == [hi |-> n \div Base, lo |-> n % Base]

BigAdd(x, y) ==
    LET l == x.lo + y.lo
    IN  [hi |-> x.hi + y.hi + (l \div Base), lo |-> l % Base]

BigSub(x, y) ==
    LET l == x.lo - y.lo
    IN  [hi |-> x.hi - y.hi + (l \div Base), lo |-> l % Base]

BigLe(x, y) == x.hi < y.hi \/ (x.hi = y.hi /\ x.lo <= y.lo)

BigIsZero(x) == x.hi = 0 /\ x.lo = 0

BigIsEven(x) == x.lo % 2 = 0

(* x / 2 for an even x *)
BigHalve(x) ==
    [hi |-> x.hi \div 2, lo |-> (x.lo \div 2) + (x.hi % 2) * HalfBase]

(* x * k for 0 <= k < 2^15 *)
BigMulSmall(x, k) ==
    LET l == x.lo * k
    IN  [hi |-> x.hi * k + (l \div Base), lo |-> l % Base]

(* x lies in [-2^31, 2^31 - 1] *)
InInt32(x) == -HalfBase <= x.hi /\ x.hi < HalfBase

(* x reduced modulo 2^32 into [-2^31, 2^31 - 1] *)
Wrap32(x) == [hi |-> ((x.hi + HalfBase) % Base) - HalfBase, lo |-> x.lo]

(***************************** doubles ***********************************)
RECURSIVE Norm(_, _)
Norm(m, e) ==
    IF BigIsZero(m) THEN [m |-> m, e |-> 0]
    ELSE IF BigIsEven(m) THEN Norm(BigHalve(m), e + 1)
    ELSE [m |-> m, e |-> e]

(* conversion of an integer of at most 33 bits to double: exact, the     *)
(* mantissa of a double holds 53 bits                                     *)
IntToDouble(s) == Norm(s, 0)

(* the literal 0.5 *)
Half == [m |-> BigOf(1), e |-> -1]

(* IEEE-754 product of x and a y whose mantissa is below 2^15; the exact  *)
(* product has at most 48 significant bits here, so nothing is rounded    *)
MulDouble(x, y) == Norm(BigMulSmall(x.m, y.m.lo), x.e + y.e)

DZero == [m |-> BigOf(0), e |-> 0]

(************************ compile-time selection *************************)
Targets ==
    { [os |-> o, bits |-> w] : o \in {"windows", "other"}, w \in {32, 64} }

(* the predefined macros of a target: _WIN32 on every Windows target,    *)
(* _WIN64 on 64-bit Windows targets only                                  *)
Defined(tgt, macro) ==
    CASE macro = "_WIN64" -> tgt.os = "windows" /\ tgt.bits = 64
      [] macro = "_WIN32" -> tgt.os = "windows"
      [] OTHER -> FALSE

(* faulty variant: the chain tests _WIN32 before _WIN64 *)
NativeApiWin32First(tgt) ==
    IF Defined(tgt, "_WIN32") THEN [attr |-> "dllexport", cc |-> "cdecl"]
    ELSE IF Defined(tgt, "_WIN64") THEN [attr |-> "dllexport", cc |-> "fastcall"]
    ELSE [attr |-> "visibility_default", cc |-> "none"]

(* #if defined(_WIN64) / #elif defined(_WIN32) / #else *)
NATIVE_API(tgt) ==
    IF Defined(tgt, "_WIN64") THEN [attr |-> "dllexport", cc |-> "fastcall"]
    ELSE IF Defined(tgt, "_WIN32") THEN [attr |-> "dllexport", cc |-> "cdecl"]
    ELSE [attr |-> "visibility_default", cc |-> "none"]

(* #if defined(_WIN32) ... DllMain ... #endif; WINAPI is __stdcall *)
DllMainDefined(tgt) == Defined(tgt, "_WIN32")

ApiNames == {"avg", "ptrSize", "Java_deltix_NativeUtilsSample_00024Imports_avg"}

(* the symbols the compiled library exports *)
ExportTable(tgt) ==
    { [name |-> n, attr |-> NATIVE_API(tgt).attr, cc |-> NATIVE_API(tgt).cc]
        : n \in ApiNames }
      \cup (IF DllMainDefined(tgt)
            THEN {[name |-> "DllMain", attr |-> "dllexport", cc |-> "stdcall"]}
            ELSE {})

(* what the build makes of the undefined signed overflow of a + b: a     *)
(* 32-bit add that wraps, an add in a wider register, or a trap (as with  *)
(* -ftrapv or a sanitizer).  The choice is the build's: one compiled body *)
(* of avg serves every caller, the alias included, so it is fixed in Init *)
OverflowModes == {"wrap", "wide", "trap"}

(***************************** memory ************************************)
NoMem == [l \in {} |-> BigOf(0)]

Write(m, l, v) == [x \in (DOMAIN m) \cup {l} |-> IF x = l THEN v ELSE m[x]]

(* the automatic storage of thread t's call is released on return *)
ReleaseFrame(m, t) == [x \in (DOMAIN m) \ {<<"auto", t>>} |-> m[x]]

IsStatic(l) == l[1] = "static"

(* faulty variant: a + b kept in one object of static storage *)
SharedSumLoc(t) == <<"static", 0>>

(* where avg keeps a + b: a temporary of the calling thread *)
SumLoc(t) == <<"auto", t>>

(***************************** calls *************************************)
NoFrame ==
    [fn |-> "none", env |-> 0, obj |-> 0, a |-> 0, b |-> 0,
     x |-> 0, y |-> 0, retD |-> DZero, retI |-> 0]

NoNote == [called |-> FALSE, reason |-> 0, ret |-> 0]

Crashed == \E t \in Threads : pc[t] = "trap"

(* the mathematical sum of avg's parameters *)
MathSum(x, y) == BigAdd(BigOf(x), BigOf(y))

Overflows(x, y) == ~InInt32(MathSum(x, y))

(* faulty variant: the sum taken in 64 bits, (int64_t)a + b *)
AvgSumWidened(x, y, mode) == MathSum(x, y)

(* faulty variant: a - b *)
AvgSumMinus(x, y, mode) ==
    LET d == BigSub(BigOf(x), BigOf(y))
    IN  IF mode = "wrap" THEN Wrap32(d) ELSE d

(* a + b in int arithmetic: defined when the sum is in range, otherwise   *)
(* what the build's overflow mode gives                                    *)
AvgSum(x, y, mode) ==
    IF mode = "wrap" THEN Wrap32(MathSum(x, y)) ELSE MathSum(x, y)

(* faulty variant: (a + b) / 2 in int arithmetic, truncating toward zero *)
AvgScaleIntDiv(s) ==
    IntToDouble(IF BigIsEven(s) THEN BigHalve(s)
                ELSE IF s.hi >= 0 THEN BigHalve(BigSub(s, BigOf(1)))
                ELSE BigHalve(BigAdd(s, BigOf(1))))

(* (a + b) * 0.5: the int is converted to double and multiplied by 0.5 *)
AvgScale(s) == MulDouble(IntToDouble(s), Half)

(* faulty variant: the arguments taken one place too early, avg(obj, a) *)
JniArgsShifted(env, obj, a, b) == <<obj, a>>

(* the arguments the JNI alias passes to avg: env and obj are unused *)
JniArgs(env, obj, a, b) == <<a, b>>

(* faulty variant: sizeof(int) *)
SizeofInt(tgt) == 4

(* sizeof(intptr_t) *)
SizeofIntptr(tgt) == tgt.bits \div 8

(* faulty variant: only the four documented reasons succeed *)
DllMainChecksReason(instance, reason, reserved) ==
    IF reason \in 0..3 THEN 1 ELSE 0

(* the body of DllMain: return 1 *)
DllMainBody(instance, reason, reserved) == 1

(* the memory locations the next step of thread t touches: avg's body   *)
(* writes its temporary in a + b and reads it in ... * 0.5; no function  *)
(* names an object of static storage                                       *)
Access(t) ==
    CASE pc[t] = "avg_add" -> {[loc |-> SumLoc(t), w |-> TRUE]}
      [] pc[t] = "avg_mul" -> {[loc |-> SumLoc(t), w |-> FALSE]}
      [] OTHER -> {}

Init ==
    /\ target \in Targets
    /\ overflow \in OverflowModes
    /\ exports = ExportTable(target)
    /\ dll = NoNote
    /\ pc = [t \in Threads |-> "idle"]
    /\ frame = [t \in Threads |-> NoFrame]
    /\ mem = NoMem

(* a caller enters avg with one of the argument pairs In *)
CallAvg(t, In) ==
    /\ ~Crashed
    /\ pc[t] = "idle"
    /\ \E p \in In :
          frame' = [frame EXCEPT ![t] =
                      [NoFrame EXCEPT !.fn = "avg", !.a = p[1], !.b = p[2],
                                      !.x = p[1], !.y = p[2]]]
    /\ pc' = [pc EXCEPT ![t] = "avg_add"]
    /\ UNCHANGED <<target, overflow, exports, dll, mem>>

CallPtrSize(t) ==
    /\ ~Crashed
    /\ pc[t] = "idle"
    /\ pc' = [pc EXCEPT ![t] = "ptr_body"]
    /\ frame' = [frame EXCEPT ![t] = [NoFrame EXCEPT !.fn = "ptrSize"]]
    /\ UNCHANGED <<target, overflow, exports, dll, mem>>

(* a caller enters the JNI alias with handles from Hs and a pair from In *)
CallJni(t, Hs, In) ==
    /\ ~Crashed
    /\ pc[t] = "idle"
    /\ \E h \in Hs : \E p \in In :
          frame' = [frame EXCEPT ![t] =
                      [NoFrame EXCEPT !.fn = "jni", !.env = h[1], !.obj = h[2],
                                      !.a = p[1], !.b = p[2]]]
    /\ pc' = [pc EXCEPT ![t] = "jni_body"]
    /\ UNCHANGED <<target, overflow, exports, dll, mem>>

(* return avg(a, b): the alias enters avg with the arguments it passes *)
JniBody(t) ==
    /\ ~Crashed
    /\ pc[t] = "jni_body"
    /\ LET f == frame[t]
           args == JniArgs(f.env, f.obj, f.a, f.b)
       IN  frame' = [frame EXCEPT ![t] = [f EXCEPT !.x = args[1], !.y = args[2]]]
    /\ pc' = [pc EXCEPT ![t] = "avg_add"]
    /\ UNCHANGED <<target, overflow, exports, dll, mem>>

(* a + b *)
AvgAdd(t) ==
    /\ ~Crashed
    /\ pc[t] = "avg_add"
    /\ LET f == frame[t]
       IN  IF Overflows(f.x, f.y) /\ overflow = "trap"
           THEN /\ pc' = [pc EXCEPT ![t] = "trap"]
                /\ mem' = mem
           ELSE /\ pc' = [pc EXCEPT ![t] = "avg_mul"]
                /\ mem' = Write(mem, SumLoc(t), AvgSum(f.x, f.y, overflow))
    /\ UNCHANGED <<target, overflow, exports, dll, frame>>

(* ... * 0.5, and the return of the product (through the alias, if the   *)
(* alias made the call)                                                    *)
AvgMul(t) ==
    /\ ~Crashed
    /\ pc[t] = "avg_mul"
    /\ frame' = [frame EXCEPT ![t].retD = AvgScale(mem[SumLoc(t)])]
    /\ pc' = [pc EXCEPT ![t] = "ret"]
    /\ UNCHANGED <<target, overflow, exports, dll, mem>>

(* return sizeof(intptr_t) *)
PtrSizeBody(t) ==
    /\ ~Crashed
    /\ pc[t] = "ptr_body"
    /\ frame' = [frame EXCEPT ![t].retI = SizeofIntptr(target)]
    /\ pc' = [pc EXCEPT ![t] = "ret"]
    /\ UNCHANGED <<target, overflow, exports, dll, mem>>

(* the caller takes the result; the call's frame is gone *)
Return(t) ==
    /\ ~Crashed
    /\ pc[t] = "ret"
    /\ pc' = [pc EXCEPT ![t] = "idle"]
    /\ frame' = [frame EXCEPT ![t] = NoFrame]
    /\ mem' = ReleaseFrame(mem, t)
    /\ UNCHANGED <<target, overflow, exports, dll>>

(* a loader notification *)
DllMain(instance, reason, reserved) ==
    /\ DllMainDefined(target)
    /\ ~Crashed
    /\ dll' = [called |-> TRUE, reason |-> reason,
               ret |-> DllMainBody(instance, reason, reserved)]
    /\ UNCHANGED <<target, overflow, exports, pc, frame, mem>>

(* one caller, every input *)
Next ==
    \/ CallAvg(1, Int32Inputs \X Int32Inputs)
    \/ CallPtrSize(1)
    \/ CallJni(1, Handles \X Handles, Int32Inputs \X Int32Inputs)
    \/ JniBody(1)
    \/ AvgAdd(1)
    \/ AvgMul(1)
    \/ PtrSizeBody(1)
    \/ Return(1)

Spec == Init /\ [][Next]_vars

(* any number of callers, unsynchronized *)
NextConc ==
    \/ \E t \in Threads : CallAvg(t, ConcPairs)
    \/ \E t \in Threads : CallPtrSize(t)
    \/ \E t \in Threads : CallJni(t, ConcHandles, ConcPairs)
    \/ \E t \in Threads : JniBody(t)
    \/ \E t \in Threads : AvgAdd(t)
    \/ \E t \in Threads : AvgMul(t)
    \/ \E t \in Threads : PtrSizeBody(t)
    \/ \E t \in Threads : Return(t)

SpecConc == Init /\ [][NextConc]_vars

(* the loader's notifications, in any order and number, around the calls *)
(* of one caller                                                          *)
NextLoader ==
    \/ \E instance, reserved \in Handles : \E reason \in Reasons :
          DllMain(instance, reason, reserved)
    \/ CallAvg(1, ConcPairs)
    \/ CallPtrSize(1)
    \/ CallJni(1, ConcHandles, ConcPairs)
    \/ JniBody(1)
    \/ AvgAdd(1)
    \/ AvgMul(1)
    \/ PtrSizeBody(1)
    \/ Return(1)

SpecLoader == Init /\ [][NextLoader]_vars

(************************** properties ************************************)
Big(h, l) == [hi |-> h, lo |-> l]

RECURSIVE BigShl(_, _)
BigShl(x, k) == IF k <= 0 THEN x ELSE BigShl(BigAdd(x, x), k - 1)

(* twice the value of a double, as an integer, for a double that is a    *)
(* multiple of 1/2 (HasHalves)                                             *)
HasHalves(d) == d.e >= -1
Twice(d) == BigShl(d.m, d.e + 1)

Returned(t, fn) == pc[t] = "ret" /\ frame[t].fn = fn

BigMin(x, y) == IF BigLe(x, y) THEN x ELSE y
BigMax(x, y) == IF BigLe(x, y) THEN y ELSE x

(* C1: when a + b lies in the int32 range, avg(a, b) is exactly          *)
(* (a + b) * 0.5: twice the result is the integer a + b; avg(2, 4) = 3.0, *)
(* avg(-1, 1) = 0.0, avg(1, 2) = 1.5.                                      *)
AvgExactInRange ==
    \A t \in Threads :
        (Returned(t, "avg") /\ InInt32(BigAdd(BigOf(frame[t].a), BigOf(frame[t].b))))
        => LET f == frame[t]
           IN  /\ HasHalves(f.retD)
               /\ Twice(f.retD) = BigAdd(BigOf(f.a), BigOf(f.b))
               /\ (f.a = 2 /\ f.b = 4) => f.retD = [m |-> Big(0, 3), e |-> 0]
               /\ (f.a = -1 /\ f.b = 1) => f.retD = [m |-> Big(0, 0), e |-> 0]
               /\ (f.a = 1 /\ f.b = 2) => f.retD = [m |-> Big(0, 3), e |-> -1]

AvgExactWitness ==
    \E t \in Threads :
        /\ Returned(t, "avg")
        /\ frame[t].a = 1 /\ frame[t].b = 2
        /\ frame[t].retD = [m |-> Big(0, 3), e |-> -1]

(* C2: the JNI alias returns what avg returns for the same (a, b),        *)
(* whatever the handles env and obj are.                                   *)
JniSameAsAvg ==
    \A t1, t2 \in Threads :
        (/\ Returned(t1, "jni")
         /\ pc[t2] = "ret" /\ frame[t2].fn \in {"avg", "jni"}
         /\ frame[t1].a = frame[t2].a /\ frame[t1].b = frame[t2].b)
        => frame[t1].retD = frame[t2].retD

JniSameWitness ==
    \E t1, t2 \in Threads :
        /\ Returned(t1, "jni") /\ Returned(t2, "avg")
        /\ frame[t1].env = 1 /\ frame[t1].obj = 1
        /\ frame[t1].a = frame[t2].a /\ frame[t1].b = frame[t2].b
        /\ frame[t1].retD = frame[t2].retD

(* C3: ptrSize() returns the byte width of a native address: 8 on a      *)
(* 64-bit target, 4 on a 32-bit target, on every call.                     *)
PtrSizeIsAddressWidth ==
    \A t \in Threads :
        Returned(t, "ptrSize")
        => /\ frame[t].retI \in {4, 8}
           /\ target.bits = 64 => frame[t].retI = 8
           /\ target.bits = 32 => frame[t].retI = 4

PtrSizeWitness ==
    \E t \in Threads :
        Returned(t, "ptrSize") /\ target.bits = 64 /\ frame[t].retI = 8

SameCall(t1, t2) ==
    /\ frame[t1].fn = frame[t2].fn
    /\ frame[t1].a = frame[t2].a
    /\ frame[t1].b = frame[t2].b

SameResult(t1, t2) ==
    /\ frame[t1].retD = frame[t2].retD
    /\ frame[t1].retI = frame[t2].retI

NoDataRace ==
    \A t1, t2 \in Threads :
        t1 # t2 =>
            \A x \in Access(t1) : \A y \in Access(t2) :
                ~(x.loc = y.loc /\ (x.w \/ y.w))

(* C4: under every interleaving of unsynchronized callers, calls of the   *)
(* same function with the same arguments return the same value however    *)
(* their steps were interleaved, and no two threads touch a common         *)
(* location (no step touches static storage at all).                       *)
ConcurrentCallsSafe ==
    /\ NoDataRace
    /\ \A t \in Threads : \A x \in Access(t) : ~IsStatic(x.loc)
    /\ \A t1, t2 \in Threads :
          (pc[t1] = "ret" /\ pc[t2] = "ret" /\ SameCall(t1, t2))
          => SameResult(t1, t2)

ConcurrentWitness ==
    /\ pc[1] = "avg_mul" /\ pc[2] = "avg_mul"
    /\ frame[1].fn = "avg" /\ frame[2].fn = "jni"
    /\ frame[1].a # frame[2].a

(* C5: every DllMain notification returns 1, whatever instance, reason    *)
(* and reserved are, and changes nothing but the loader's record of it.    *)
DllMainAlwaysTrue ==
    /\ [](dll.called => dll.ret = 1)
    /\ [][dll' # dll =>
            /\ dll'.called /\ dll'.ret = 1
            /\ UNCHANGED <<target, overflow, exports, pc, frame, mem>>]_vars

DllMainWitness ==
    /\ dll.called /\ dll.reason \notin 0..3 /\ dll.ret = 1
    /\ pc[1] = "avg_mul"

CallsAreStateless ==
    /\ \A t1, t2 \in Threads :
          (pc[t1] = "ret" /\ pc[t2] = "ret" /\ SameCall(t1, t2))
          => SameResult(t1, t2)
    /\ \A l \in DOMAIN mem : l[1] = "auto" /\ pc[l[2]] \in {"avg_mul", "ret"}
    /\ \A t \in Threads : pc[t] = "idle" => frame[t] = NoFrame

StatelessWitness ==
    /\ Returned(1, "avg") /\ Returned(2, "avg")
    /\ frame[1].a = MaxInt32 /\ frame[1].b = 1
    /\ SameCall(1, 2) /\ SameResult(1, 2)

ApiEntries(n) == {e \in exports : e.name = n}

(* C8: the export attribute and calling convention are fixed per target:  *)
(* dllexport + fastcall on 64-bit Windows, dllexport + cdecl on 32-bit     *)
(* Windows, default visibility and no explicit convention elsewhere; one   *)
(* selection per target; DllMain (stdcall) exists on Windows only.         *)
ExportSelection ==
    /\ \A n \in ApiNames : Cardinality(ApiEntries(n)) = 1
    /\ \A n \in ApiNames : \A e \in ApiEntries(n) :
          /\ (target.os = "windows" /\ target.bits = 64)
                => (e.attr = "dllexport" /\ e.cc = "fastcall")
          /\ (target.os = "windows" /\ target.bits = 32)
                => (e.attr = "dllexport" /\ e.cc = "cdecl")
          /\ target.os # "windows"
                => (e.attr = "visibility_default" /\ e.cc = "none")
    /\ (ApiEntries("DllMain") # {}) <=> (target.os = "windows")
    /\ \A e \in ApiEntries("DllMain") : e.cc = "stdcall"

ExportWitness ==
    /\ target.os = "windows" /\ target.bits = 64
    /\ \E e \in exports : e.name = "avg" /\ e.cc = "fastcall"
    /\ Returned(1, "avg")

(* C9: where signed overflow wraps, avg(a, b) is wrap32(a + b) * 0.5:     *)
(* twice the result is an int32 congruent to a + b modulo 2^32, and when   *)
(* a + b is out of range the result is 2^31 away from (a + b) / 2;         *)
(* avg(2^31 - 1, 1) = -2^30.                                               *)
AvgWraps ==
    \A t \in Threads :
        (Returned(t, "avg") /\ overflow = "wrap")
        => LET f == frame[t]
               s == BigAdd(BigOf(f.a), BigOf(f.b))
               d == BigSub(s, Twice(f.retD))
           IN  /\ HasHalves(f.retD)
               /\ InInt32(Twice(f.retD))
               /\ d \in {Big(0, 0), Big(Base, 0), Big(-Base, 0)}
               /\ ~InInt32(s) => d # Big(0, 0)
               /\ (f.a = MaxInt32 /\ f.b = 1) => f.retD = [m |-> Big(-1, Base - 1), e |-> 30]

AvgWrapsWitness ==
    \E t \in Threads :
        /\ Returned(t, "avg") /\ overflow = "wrap"
        /\ frame[t].a = MaxInt32 /\ frame[t].b = 1
        /\ frame[t].retD = [m |-> Big(-1, Base - 1), e |-> 30]

(* C10: avg(a, b) = avg(b, a) for every pair, overflowing sums included;  *)
(* and when a + b is in range, min(a, b) <= avg(a, b) <= max(a, b).        *)
AvgCommutes ==
    /\ \A t1, t2 \in Threads :
          (/\ Returned(t1, "avg") /\ Returned(t2, "avg")
           /\ frame[t1].a = frame[t2].b /\ frame[t1].b = frame[t2].a)
          => frame[t1].retD = frame[t2].retD
    /\ \A t \in Threads :
          (Returned(t, "avg") /\ InInt32(BigAdd(BigOf(frame[t].a), BigOf(frame[t].b))))
          => LET f == frame[t]
                 a2 == BigAdd(BigOf(f.a), BigOf(f.a))
                 b2 == BigAdd(BigOf(f.b), BigOf(f.b))
             IN  /\ HasHalves(f.retD)
                 /\ BigLe(BigMin(a2, b2), Twice(f.retD))
                 /\ BigLe(Twice(f.retD), BigMax(a2, b2))

AvgCommutesWitness ==
    /\ Returned(1, "avg") /\ Returned(2, "avg")
    /\ overflow = "wrap"
    /\ frame[1].a = MaxInt32 /\ frame[1].b = 1
    /\ frame[2].a = 1 /\ frame[2].b = MaxInt32
    /\ frame[1].retD = frame[2].retD

====
